---- MODULE Spec2Model ----
(***************************************************************************)
(* Model of dimmer (src/main.rs): the orchestrator `main` enumerates the   *)
(* backlight devices, reads each device's actual and maximum brightness,   *)
(* computes a target, spawns one ramp worker per device and joins the      *)
(* handle kept in `thread`.  Text is modelled as sequences of one-         *)
(* character strings so that parsing and formatting are computed.          *)
(***************************************************************************)
EXTENDS Integers, Sequences, FiniteSets, TLC

\* ------------------------------------------------------------------ bounds
MaxDevices == 2        \* devices the glob yields: 0..MaxDevices
LowLevels == 5         \* brightness levels 0..LowLevels are enumerated
MaxBrightness == 101   \* ... and HighBase..MaxBrightness
MaxPercent == 102      \* percentages 0..MaxPercent are parsed

\* ------------------------------------------------------- program constants
step_size == 4
HighBase == 100
SYS_BACKLIGHT_PREFIX == "/sys/class/backlight"

\* ---------------------------------------------------------------- text
DigitChars == <<"0", "1", "2", "3", "4", "5", "6", "7", "8", "9">>

IsDigit(c) == \E k \in 1..10 : DigitChars[k] = c

DigitVal(c) == (CHOOSE k \in 1..10 : DigitChars[k] = c) - 1

IsWhitespace(c) == c \in {" ", "\n", "\t", "\r"}

RECURSIVE TrimStart(_)
TrimStart(s) ==
  IF s # <<>> /\ IsWhitespace(Head(s)) THEN TrimStart(Tail(s)) ELSE s

RECURSIVE TrimEnd(_)
TrimEnd(s) ==
  IF s # <<>> /\ IsWhitespace(s[Len(s)])
  THEN TrimEnd(SubSeq(s, 1, Len(s) - 1))
  ELSE s

Trim(s) == TrimEnd(TrimStart(s))

RECURSIVE DigitsValue(_)
DigitsValue(s) ==
  IF s = <<>> THEN 0
  ELSE 10 * DigitsValue(SubSeq(s, 1, Len(s) - 1)) + DigitVal(s[Len(s)])

Err(e) == [ok |-> FALSE, val |-> 0, err |-> e]

Ok(v) == [ok |-> TRUE, val |-> v, err |-> "none"]

\* str::parse::<u64>: an optional leading '+', then one or more digits.
ParseU64(s) ==
  LET body == IF s # <<>> /\ Head(s) = "+" THEN Tail(s) ELSE s
  IN IF body = <<>> \/ \E k \in 1..Len(body) : ~IsDigit(body[k])
     THEN Err("ParseIntError")
     ELSE Ok(DigitsValue(body))

RECURSIVE Display(_)
Display(n) ==
  IF n < 10 THEN <<DigitChars[n + 1]>>
  ELSE Display(n \div 10) \o <<DigitChars[(n % 10) + 1]>>

\* ------------------------------------------------------------ Brightness
\* <Brightness as FromStr>::from_str
from_str(input) ==
  LET r == ParseU64(input)
  IN IF r.ok THEN r ELSE Err("InvalidBrightness")

StripPercent(input) ==
  IF input # <<>> /\ input[Len(input)] = "%"
  THEN [some |-> TRUE, rest |-> SubSeq(input, 1, Len(input) - 1)]
  ELSE [some |-> FALSE, rest |-> input]

\* ---- f64 arithmetic on bit strings, most significant bit first ----
MantissaBits == 53

\* the first n bits of r/d after the binary point (r < d), and what is
\* left; long division, done half by half
RECURSIVE DivBits(_, _, _)
DivAppend(bits, rest) == [bits |-> bits \o rest.bits, rem |-> rest.rem]

DivJoin(first, d, n) == DivAppend(first.bits, DivBits(first.rem, d, n))

DivBits(r, d, n) ==
  IF n = 0 THEN [bits |-> <<>>, rem |-> r]
  ELSE IF n = 1
       THEN IF 2 * r >= d
            THEN [bits |-> <<1>>, rem |-> 2 * r - d]
            ELSE [bits |-> <<0>>, rem |-> 2 * r]
       ELSE DivJoin(DivBits(r, d, n \div 2), d, n - n \div 2)

\* the n-bit representation of v < 2^n
FixedBits(v, n) == [k \in 1..n |-> (v \div 2^(n - k)) % 2]

StripZeros(bits) ==
  IF \A k \in 1..Len(bits) : bits[k] = 0 THEN <<>>
  ELSE SubSeq(bits, CHOOSE k \in 1..Len(bits) :
                      bits[k] = 1 /\ \A j \in 1..(k - 1) : bits[j] = 0,
              Len(bits))

ToBits(n) == StripZeros(FixedBits(n, 31))

RECURSIVE BitsValue(_)
BitsValue(bits) ==
  IF bits = <<>> THEN 0
  ELSE IF Len(bits) = 1 THEN bits[1]
  ELSE BitsValue(SubSeq(bits, 1, Len(bits) \div 2))
         * 2^(Len(bits) - Len(bits) \div 2)
       + BitsValue(SubSeq(bits, Len(bits) \div 2 + 1, Len(bits)))

IncBits(bits) ==
  IF \A k \in 1..Len(bits) : bits[k] = 1
  THEN <<1>> \o [k \in 1..Len(bits) |-> 0]
  ELSE [k \in 1..Len(bits) |->
          IF \E j \in (k + 1)..Len(bits) : bits[j] = 0 THEN bits[k]
          ELSE 1 - bits[k]]

\* bits * m + carry for m < 2^12, ChunkBits bits at a time from the low end
ChunkBits == 18

RECURSIVE MulBits(_, _, _)
MulChunk(front, m, t) ==
  MulBits(front, m, t \div 2^ChunkBits) \o FixedBits(t % 2^ChunkBits, ChunkBits)

MulBits(bits, m, carry) ==
  IF Len(bits) <= ChunkBits THEN ToBits(BitsValue(bits) * m + carry)
  ELSE MulChunk(SubSeq(bits, 1, Len(bits) - ChunkBits), m,
                BitsValue(SubSeq(bits, Len(bits) - ChunkBits + 1, Len(bits))) * m
                  + carry)

\* Round a bit string without leading zeros to MantissaBits significant
\* bits, ties to even; `sticky` tells whether nonzero bits follow it.  The
\* bits rounded away are kept as zeros, so the scale is unchanged.
RoundBits(bits, sticky) ==
  IF Len(bits) <= MantissaBits THEN bits
  ELSE LET kept == SubSeq(bits, 1, MantissaBits)
           dropped == SubSeq(bits, MantissaBits + 1, Len(bits))
           below == sticky \/ \E k \in 2..Len(dropped) : dropped[k] = 1
           up == dropped[1] = 1 /\ (below \/ kept[MantissaBits] = 1)
       IN (IF up THEN IncBits(kept) ELSE kept)
            \o [k \in 1..Len(dropped) |-> 0]

\* percentage as f64 / 100.0 for 0 < percentage < 100: the f64 nearest to
\* the quotient, as the integer `bits` scaled by 2^-scale.
DivHundred(percentage) ==
  LET lead == CHOOSE k \in 1..7 :
                /\ percentage * 2^k >= 100
                /\ percentage * 2^(k - 1) < 100
      scale == lead + MantissaBits
      q == DivBits(percentage, 100, scale)
  IN [bits |-> RoundBits(StripZeros(q.bits), q.rem # 0), scale |-> scale]

\* ((percentage as f64 / 100.0) * max as f64) as u64, for percentage <= 100
\* and a max that f64 holds exactly
PercentOf(percentage, max) ==
  IF percentage % 100 = 0 THEN (percentage \div 100) * max
  ELSE LET q == DivHundred(percentage)
           product == RoundBits(StripZeros(MulBits(q.bits, max, 0)), FALSE)
       IN IF Len(product) <= q.scale THEN 0
          ELSE BitsValue(SubSeq(product, 1, Len(product) - q.scale))

\* Variant of parse_with_percentage: a percentage above 100 is clamped to
\* the maximum instead of being refused.
parse_with_percentage_clamping(input, max) ==
  LET sp == StripPercent(input)
  IN IF sp.some
     THEN LET p == ParseU64(sp.rest)
          IN IF ~p.ok THEN Err("ParseIntError")
             ELSE IF p.val > 100 THEN Ok(max)
             ELSE Ok(PercentOf(p.val, max))
     ELSE from_str(input)

parse_with_percentage(input, max) ==
  LET sp == StripPercent(input)
  IN IF sp.some
     THEN LET p == ParseU64(sp.rest)
          IN IF ~p.ok THEN Err("ParseIntError")
             ELSE IF p.val > 100 THEN Err("InvalidPercentage")
             ELSE Ok(PercentOf(p.val, max))
     ELSE from_str(input)

\* A counter file is either unreadable or holds some text.
Unreadable == [readable |-> FALSE, text |-> <<>>]

Holding(text) == [readable |-> TRUE, text |-> text]

\* std::fs::read_to_string(path)?.trim().parse()?
from_file(file) ==
  IF ~file.readable THEN Err("Failed to read {path}")
  ELSE LET r == from_str(Trim(file.text))
       IN IF r.ok THEN r ELSE Err("Failed to parse brightness from {path}")

\* ------------------------------------------------------- the environment
DeviceNames == <<"acpi_video0", "ddcci9", "intel_backlight">>

\* glob yields the matching directories in sorted order, without repeats.
Listings ==
  {l \in UNION {[1..n -> 1..Len(DeviceNames)] : n \in 0..MaxDevices} :
     \A a, b \in DOMAIN l : a < b => l[a] < l[b]}

Parent(name) == SYS_BACKLIGHT_PREFIX \o "/" \o name

Maxima == {LowLevels} \cup (HighBase..MaxBrightness)

Levels(max) == {s \in (0..LowLevels) \cup {max} : s <= max}

CounterText(n) == Holding(Display(n) \o <<"\n">>)

BadFiles == {Unreadable, Holding(<<"\n">>), Holding(<<"o", "n", "\n">>)}

\* What the actual_brightness and max_brightness files of one device can
\* hold: a maximum and a live value not above it, or something unusable.
DeviceFiles ==
  {f \in [actual : {CounterText(s) : s \in (0..LowLevels) \cup Maxima} \cup BadFiles,
          max : {CounterText(m) : m \in Maxima} \cup BadFiles] :
     from_file(f.actual).ok /\ from_file(f.max).ok
       => from_file(f.actual).val \in Levels(from_file(f.max).val)}

\* ------------------------------------------------------------- the state
VARIABLES
  restore,          \* opt.restore
  overflow_checks,  \* whether the build traps integer overflow
  devices,          \* what the glob yields, as indices into DeviceNames
  pc,               \* where main is: "loop", "print", "return", "exited"
  i,                \* the next entry of the glob to be set up
  thread,           \* 0 for None, else the device whose JoinHandle is kept
  printed,          \* whether "Ok!" has been printed
  result,           \* what main returned: "none", "Ok", "Err", "panic"
  worker,           \* per device: the state captured by its ramp closure
  written,          \* per device: the values written to its brightness file
  access,           \* per device: who locked its handle, who wrote which counter
  reads,            \* per device: how often each read-only counter was read
  call              \* a call of parse_with_percentage on its own

vars ==
  <<restore, overflow_checks, devices, pc, i, thread, printed, result,
    worker, written, access, reads, call>>

NotSpawned ==
  [state |-> "NotSpawned", stored |-> 0, maximum |-> 0, target |-> 0,
   brightness |-> 0, panic |-> "none",
   file |-> [device |-> 0, counter |-> "none"]]

NoAccess == [lockers |-> {}, writers |-> {}, counters |-> {}]

NoReads == [actual |-> 0, max |-> 0]

NoCall == [input |-> <<>>, max |-> 0, out |-> <<>>]

Init ==
  /\ restore \in BOOLEAN
  /\ overflow_checks \in BOOLEAN
  /\ devices \in Listings
  /\ pc = "loop"
  /\ i = 1
  /\ thread = 0
  /\ printed = FALSE
  /\ result = "none"
  /\ worker = [d \in DOMAIN devices |-> NotSpawned]
  /\ written = [d \in DOMAIN devices |-> <<>>]
  /\ access = [d \in DOMAIN devices |-> NoAccess]
  /\ reads = [d \in DOMAIN devices |-> NoReads]
  /\ call = NoCall

\* ------------------------------------------------------ target resolution
\* Variant of PolicyInput: the restore flag is not consulted.
PolicyInputAlwaysFull(parent) == <<"1", "0", "0">>

PolicyInput(parent) ==
  IF restore
  THEN IF parent = "{SYS_BACKLIGHT_PREFIX}/ddcci9"
       THEN <<"7", "0">>
       ELSE <<"1", "0", "0">>
  ELSE <<"0">>

\* Variant of Clamp: the target is taken as parsed.
ClampForgotten(target, maximum) == target

Clamp(target, maximum) == IF target > maximum THEN maximum ELSE target

ResolveTarget(parent, maximum) ==
  LET t == parse_with_percentage(PolicyInput(parent), maximum)
  IN IF t.ok THEN Ok(Clamp(t.val, maximum)) ELSE t

\* ------------------------------------------------------------------ main
\* One pass of the loop body up to the spawn: the outcome of the reads, the
\* target computation and File::create for the device at position d.
\* Variant of HandleFor: one handle, made for the first device, is shared.
HandleShared(d) == [device |-> 1, counter |-> "brightness"]

\* Variant of HandleFor: the handle is made on current_brightness_file.
HandleOnActual(d) == [device |-> d, counter |-> "actual_brightness"]

\* File::create(&brightness_file), wrapped and moved into the closure
HandleFor(d) == [device |-> d, counter |-> "brightness"]

Setup(d, entryOk, files, createOk) ==
  LET stored == from_file(files.actual)
      maximum == from_file(files.max)
      target == ResolveTarget(Parent(DeviceNames[devices[d]]), maximum.val)
  IN IF ~entryOk
     THEN [ok |-> FALSE, result |-> "panic", reads |-> NoReads]
     ELSE IF ~stored.ok
     THEN [ok |-> FALSE, result |-> "Err", reads |-> [actual |-> 1, max |-> 0]]
     ELSE IF ~maximum.ok \/ ~target.ok \/ ~createOk
     THEN [ok |-> FALSE, result |-> "Err", reads |-> [actual |-> 1, max |-> 1]]
     ELSE [ok |-> TRUE, result |-> "none", reads |-> [actual |-> 1, max |-> 1],
           closure |-> [state |-> "Running", stored |-> stored.val,
                        maximum |-> maximum.val, target |-> target.val,
                        brightness |-> stored.val, panic |-> "none",
                        file |-> HandleFor(d)]]

\* the counters read by one pass of the loop body
ReadBy(d, s) ==
  [reads EXCEPT ![d] = [actual |-> @.actual + s.reads.actual,
                        max |-> @.max + s.reads.max]]

LoopSpawn ==
  /\ pc = "loop" /\ i <= Len(devices)
  /\ \E files \in DeviceFiles :
       LET s == Setup(i, TRUE, files, TRUE)
       IN /\ s.ok
          /\ worker' = [worker EXCEPT ![i] = s.closure]
          /\ reads' = ReadBy(i, s)
          /\ thread' = i
          /\ i' = i + 1
  /\ UNCHANGED <<call, access, restore, overflow_checks, devices, pc, printed, result, written>>

LoopFail ==
  /\ pc = "loop" /\ i <= Len(devices)
  /\ \E files \in DeviceFiles, entryOk \in BOOLEAN, createOk \in BOOLEAN :
       LET s == Setup(i, entryOk, files, createOk)
       IN /\ ~s.ok
          /\ result' = s.result
          /\ reads' = ReadBy(i, s)
          /\ pc' = "return"
  /\ UNCHANGED <<call, access, restore, overflow_checks, devices, i, thread, printed, worker, written>>

Finished(d) == worker[d].state \in {"Converged", "Panicked"}

\* Variant of JoinNone: thread.unwrap() on None panics main.
JoinNoneUnwraps ==
  /\ pc = "loop" /\ i > Len(devices)
  /\ thread = 0
  /\ result' = "panic"
  /\ pc' = "return"
  /\ UNCHANGED <<call, access, reads, restore, overflow_checks, devices, i, thread, printed, worker, written>>

\* if let Some(value) = thread { let _ = value.join(); }
JoinSome ==
  /\ pc = "loop" /\ i > Len(devices)
  /\ thread # 0 /\ Finished(thread)
  /\ pc' = "print"
  /\ UNCHANGED <<call, access, reads, restore, overflow_checks, devices, i, thread, printed, result, worker, written>>

JoinNone ==
  /\ pc = "loop" /\ i > Len(devices)
  /\ thread = 0
  /\ pc' = "print"
  /\ UNCHANGED <<call, access, reads, restore, overflow_checks, devices, i, thread, printed, result, worker, written>>

PrintOk ==
  /\ pc = "print"
  /\ printed' = TRUE
  /\ result' = "Ok"
  /\ pc' = "return"
  /\ UNCHANGED <<call, access, reads, restore, overflow_checks, devices, i, thread, worker, written>>

\* main has returned (or panicked): the process exits and takes every
\* thread that is still running with it.
ProcessExit ==
  /\ pc = "return"
  /\ pc' = "exited"
  /\ worker' = [d \in DOMAIN worker |->
                  IF worker[d].state = "Running"
                  THEN [worker[d] EXCEPT !.state = "Killed"]
                  ELSE worker[d]]
  /\ UNCHANGED <<call, access, reads, restore, overflow_checks, devices, i, thread, printed, result, written>>

\* ---------------------------------------------------------- ramp worker
\* target.0 - brightness.0 on u64 leaves the range when brightness > target.
SubOverflows(target, brightness) == brightness > target

\* (target.0 - brightness.0) < step_size; a wrapped difference is
\* 2^64 - (brightness - target), above step_size for every modelled level.
GapBelowStep(target, brightness) ==
  IF SubOverflows(target, brightness) THEN FALSE
  ELSE target - brightness < step_size

\* Variant of Step: a ramp to zero jumps like a ramp to a nonzero target.
StepJumps(target, brightness) == target

\* The value one pass of the loop assigns to brightness.
Step(target, brightness) ==
  IF target = 0
  THEN IF brightness < step_size THEN 0 ELSE brightness - step_size
  ELSE IF GapBelowStep(target, brightness) THEN target ELSE target

\* Variant of AtTarget: the loop ends only once the device is dark.
AtTargetOnlyDark(target, brightness) == brightness = 0 /\ target = brightness

AtTarget(target, brightness) == target = brightness

Traps(target, brightness) ==
  target # 0 /\ SubOverflows(target, brightness) /\ overflow_checks

Alive(d) ==
  /\ pc # "exited"
  /\ d \in DOMAIN worker
  /\ worker[d].state = "Running"

\* file.lock().unwrap() by worker w
Locked(a, w) == [a EXCEPT !.lockers = @ \cup {w}]

\* write!(file, ...) by worker w on a handle made on `counter`
Wrote(a, w, counter) ==
  [a EXCEPT !.writers = @ \cup {w}, !.counters = @ \cup {counter}]

WorkerBreak(d) ==
  /\ Alive(d)
  /\ AtTarget(worker[d].target, worker[d].brightness)
  /\ worker' = [worker EXCEPT ![d].state = "Converged"]
  /\ UNCHANGED <<call, access, reads, restore, overflow_checks, devices, pc, i, thread, printed, result, written>>

WorkerTick(d) ==
  /\ Alive(d)
  /\ ~AtTarget(worker[d].target, worker[d].brightness)
  /\ ~Traps(worker[d].target, worker[d].brightness)
  /\ LET b == Step(worker[d].target, worker[d].brightness)
         h == worker[d].file
     IN /\ worker' = [worker EXCEPT ![d].brightness = b]
        /\ written' = IF h.counter = "brightness"
                      THEN [written EXCEPT ![h.device] = Append(@, b)]
                      ELSE written
        /\ access' = [access EXCEPT ![h.device] = Locked(Wrote(@, d, h.counter), d)]
  /\ UNCHANGED <<call, reads, restore, overflow_checks, devices, pc, i, thread, printed, result>>

\* write! returned an error: expect panics the worker thread.
WorkerWriteFail(d) ==
  /\ Alive(d)
  /\ ~AtTarget(worker[d].target, worker[d].brightness)
  /\ ~Traps(worker[d].target, worker[d].brightness)
  /\ worker' = [worker EXCEPT
                  ![d].brightness = Step(worker[d].target, worker[d].brightness),
                  ![d].state = "Panicked",
                  ![d].panic = "write"]
  /\ access' = [access EXCEPT ![worker[d].file.device] = Locked(@, d)]
  /\ UNCHANGED <<call, reads, restore, overflow_checks, devices, pc, i, thread, printed, result, written>>

\* "attempt to subtract with overflow" panics the worker thread.
WorkerOverflow(d) ==
  /\ Alive(d)
  /\ ~AtTarget(worker[d].target, worker[d].brightness)
  /\ Traps(worker[d].target, worker[d].brightness)
  /\ worker' = [worker EXCEPT ![d].state = "Panicked", ![d].panic = "overflow"]
  /\ UNCHANGED <<call, access, reads, restore, overflow_checks, devices, pc, i, thread, printed, result, written>>

Next ==
  \/ LoopSpawn
  \/ LoopFail
  \/ JoinSome
  \/ JoinNone
  \/ PrintOk
  \/ ProcessExit
  \/ \E d \in 1..MaxDevices : WorkerBreak(d)
  \/ \E d \in 1..MaxDevices : WorkerTick(d)
  \/ \E d \in 1..MaxDevices : WorkerWriteFail(d)
  \/ \E d \in 1..MaxDevices : WorkerOverflow(d)

Spec == Init /\ [][Next]_vars

\* ------------------------------------- parse_with_percentage on its own
PercentInput(p) == Display(p) \o <<"%">>

AbsoluteLevels == (0..LowLevels) \cup {HighBase, 2 * HighBase}

ParseInputs ==
  {PercentInput(p) : p \in 0..MaxPercent}
    \cup {Display(n) : n \in AbsoluteLevels}
    \cup {<<>>, <<"%">>, <<"o", "n", "%">>, <<"o", "n">>}

InitParse ==
  /\ restore = FALSE
  /\ overflow_checks = FALSE
  /\ devices = <<>>
  /\ pc = "call"
  /\ i = 1
  /\ thread = 0
  /\ printed = FALSE
  /\ result = "none"
  /\ worker = <<>>
  /\ written = <<>>
  /\ access = <<>>
  /\ reads = <<>>
  /\ call \in [input : ParseInputs, max : 0..MaxBrightness, out : {<<>>}]

ParseCall ==
  /\ pc = "call" /\ call.out = <<>>
  /\ call' = [call EXCEPT !.out = <<parse_with_percentage(call.input, call.max)>>]
  /\ UNCHANGED <<restore, overflow_checks, devices, pc, i, thread, printed,
                 result, worker, written, access, reads>>

NextParse == ParseCall

SpecParse == InitParse /\ [][NextParse]_vars

\* ------------------------------------------------ the brightness file
\* write on a handle: the bytes land at the handle's offset, which moves
\* past them; File::create leaves the file empty and the offset at 0.
WriteAt(file, bytes) ==
  [content |-> SubSeq(file.content, 1, file.offset) \o bytes
                 \o SubSeq(file.content, file.offset + Len(bytes) + 1,
                           Len(file.content)),
   offset |-> file.offset + Len(bytes)]

Created == [content |-> <<>>, offset |-> 0]

RECURSIVE AfterWrites(_)
AfterWrites(values) ==
  IF values = <<>> THEN Created
  ELSE WriteAt(AfterWrites(SubSeq(values, 1, Len(values) - 1)),
               Display(values[Len(values)]))

\* what the brightness file of device d holds
CounterContent(d) == AfterWrites(written[d]).content

\* ---------------------------------------------------------------- claims
Spawned(d) == worker[d].state # "NotSpawned"

Name(d) == DeviceNames[devices[d]]

Max(a, b) == IF a > b THEN a ELSE b

CeilDiv(a, b) == (a + b - 1) \div b

IsPrefix(s, t) == Len(s) <= Len(t) /\ s = SubSeq(t, 1, Len(s))

\* C1: whenever the completion line has been printed, no spawned worker is
\* still Running.
C1_PrintedAfterEveryWorker ==
  printed => \A d \in DOMAIN worker : worker[d].state # "Running"

\* C2: in restore mode every device other than ddcci9 gets target = maximum.
C2_RestoreTargetIsMaximum ==
  restore =>
    \A d \in DOMAIN worker :
      Spawned(d) /\ Name(d) # "ddcci9" => worker[d].target = worker[d].maximum

\* C3: when setup fails with an error, no worker has been spawned and no
\* value has been written to any device.
C3_SetupFailureBeforeAnyWorker ==
  result = "Err" =>
    \A d \in DOMAIN worker : ~Spawned(d) /\ written[d] = <<>>

\* C4: once a write has failed in some worker, the run never reports
\* success: "Ok!" is not printed and main does not return Ok.
C4_WriteFailureIsFatal ==
  (\E d \in DOMAIN worker : worker[d].panic = "write") =>
    ~printed /\ result # "Ok"

\* C5: a worker with target > 0 and a start different from the target writes
\* the target once and nothing else, and when it stops by itself (its write
\* not having failed) it is Converged with exactly that one write.
C5_NonzeroTargetSingleWrite ==
  \A d \in DOMAIN worker :
    Spawned(d) /\ worker[d].target > 0 /\ worker[d].stored # worker[d].target
      => /\ written[d] \in {<<>>, <<worker[d].target>>}
         /\ (worker[d].state \in {"Converged", "Panicked"} /\ worker[d].panic # "write")
              => worker[d].state = "Converged" /\ written[d] = <<worker[d].target>>

\* The writes the claim lists for a ramp to zero from s:
\* max(s-4,0), max(s-8,0), ..., ceil(s/4) of them.
RampToZero(s) == [k \in 1..CeilDiv(s, 4) |-> Max(s - 4 * k, 0)]

\* C6: a worker with target 0 and start s > 0 writes max(s-4,0), max(s-8,0),
\* ... in this order, never more than ceil(s/4) values, each <= the one
\* before; once Converged it has written all ceil(s/4) of them, the last 0.
C6_RampToZeroSequence ==
  \A d \in DOMAIN worker :
    Spawned(d) /\ worker[d].target = 0 /\ worker[d].stored > 0
      => /\ IsPrefix(written[d], RampToZero(worker[d].stored))
         /\ \A k \in 2..Len(written[d]) : written[d][k] <= written[d][k - 1]
         /\ worker[d].state = "Converged"
              => /\ Len(written[d]) = CeilDiv(worker[d].stored, 4)
                 /\ written[d][Len(written[d])] = 0
                 /\ \A k \in 1..(Len(written[d]) - 1) : written[d][k] > 0

C6_Witness ==
  \E d \in DOMAIN worker :
    /\ worker[d].state = "Converged" /\ worker[d].target = 0
    /\ worker[d].stored > 2 * step_size /\ worker[d].stored % step_size # 0
    /\ Len(written[d]) >= 3

RECURSIVE Alone(_, _)
Alone(target, brightness) ==
  IF AtTarget(target, brightness) THEN <<>>
  ELSE <<Step(target, brightness)>> \o Alone(target, Step(target, brightness))

\* C8: when the run has ended with success and no worker has panicked, every
\* device has received exactly the sequence its worker produces alone and
\* is at its own target.
C8_EveryDeviceCompleteSequence ==
  (pc = "exited" /\ result = "Ok"
     /\ \A d \in DOMAIN worker : worker[d].state # "Panicked")
    => \A d \in DOMAIN worker :
         /\ written[d] = Alone(worker[d].target, worker[d].stored)
         /\ worker[d].brightness = worker[d].target

\* C9: a worker whose start equals its target never writes and never
\* changes its value; it can only stop as Converged.
C9_AlreadyConvergedNoWrites ==
  \A d \in DOMAIN worker :
    Spawned(d) /\ worker[d].stored = worker[d].target
      => /\ written[d] = <<>>
         /\ worker[d].brightness = worker[d].stored
         /\ worker[d].state \in {"Running", "Converged", "Killed"}
         /\ (worker[d].state = "Running" /\ pc # "exited") => ENABLED WorkerBreak(d)

C9_Witness ==
  \E d \in DOMAIN worker :
    /\ worker[d].state = "Converged" /\ worker[d].stored = worker[d].target
    /\ worker[d].target > 0

\* C10: when the glob yields nothing, no worker exists, nothing is written,
\* main is never stuck and it ends having printed "Ok!" and returned Ok.
C10_ZeroDevicesSuccess ==
  devices = <<>> =>
    /\ thread = 0
    /\ \A d \in 1..MaxDevices : ~ENABLED WorkerTick(d)
    /\ written = <<>>
    /\ result \in {"none", "Ok"}
    /\ pc = "loop" => ENABLED JoinNone
    /\ pc \in {"return", "exited"} => printed /\ result = "Ok"

C10_Witness == devices = <<>> /\ pc = "exited" /\ printed /\ result = "Ok"

\* 70% of a maximum, rounded toward zero
SeventyPercent(m) == (70 * m) \div 100

\* C11: in restore mode ddcci9 gets 70% of its maximum as target, and the
\* other devices get something else.
C11_SpecialDeviceSeventyPercent ==
  restore =>
    \A d \in DOMAIN worker :
      Spawned(d) =>
        (Name(d) = "ddcci9") = (worker[d].target = SeventyPercent(worker[d].maximum))

\* C12: in dim mode every device's target is 0 whatever its maximum and
\* start, its writes never rise, and a worker that has run from a nonzero
\* start to its break has written 0 last.
C12_DimTargetZero ==
  ~restore =>
    \A d \in DOMAIN worker :
      Spawned(d) =>
        /\ worker[d].target = 0
        /\ worker[d].state = "Converged" /\ worker[d].stored > 0
             => written[d] # <<>> /\ written[d][Len(written[d])] = 0

C12_Witness ==
  /\ ~restore
  /\ \E d \in DOMAIN worker :
       /\ worker[d].state = "Converged"
       /\ worker[d].stored > 0 /\ worker[d].maximum >= HighBase
       /\ written[d][Len(written[d])] = 0

\* C15: provided its writes succeed, a worker never stops in a state other
\* than Converged.
C15_StopsOnlyConverged ==
  \A d \in DOMAIN worker :
    worker[d].state \in {"Panicked", "Killed"} => worker[d].panic = "write"

\* C16: a worker whose value equals its target is at its break and cannot
\* write; the target, once written, is the last value written; and a worker
\* that wrote and then reached its break wrote its target last.
C16_NoWriteAfterConvergence ==
  \A d \in DOMAIN worker :
    Spawned(d) =>
      /\ \A k \in 1..(Len(written[d]) - 1) : written[d][k] # worker[d].target
      /\ worker[d].state = "Converged" => worker[d].brightness = worker[d].target
      /\ (worker[d].brightness = worker[d].target /\ worker[d].state # "Panicked")
           => /\ ~ENABLED WorkerTick(d)
              /\ written[d] # <<>> => written[d][Len(written[d])] = worker[d].target

C16_Witness ==
  \E d \in DOMAIN worker :
    /\ worker[d].state = "Converged" /\ worker[d].target > 0
    /\ written[d] = <<worker[d].target>>

\* C17: after each write the brightness file holds the decimal text of the
\* value written last, and nothing else.
C17_WriteReplacesContent ==
  \A d \in DOMAIN worker :
    written[d] # <<>> => CounterContent(d) = Display(written[d][Len(written[d])])

\* C20: whenever the nonzero-target branch is about to be taken the value is
\* not above the target, and no worker has panicked on the subtraction.
C20_SubtractionNeverUnderflows ==
  \A d \in DOMAIN worker :
    /\ worker[d].panic # "overflow"
    /\ (worker[d].state = "Running" /\ worker[d].target # 0
          /\ ~AtTarget(worker[d].target, worker[d].brightness))
         => ~SubOverflows(worker[d].target, worker[d].brightness)

\* the devices whose setup pass spawned a worker holding a handle on device d
WorkersOf(d) == {w \in DOMAIN worker : Spawned(w) /\ worker[w].file.device = d}

LoopDone == pc \in {"join", "print", "return"} /\ result # "Err" /\ result # "panic"

\* C18: each discovered device gets exactly one worker, whose handle is on
\* that device's own brightness counter; a counter is written, and the lock
\* around its handle acquired, by that device's worker only, never by another
\* worker or by the orchestrator.
C18_OneWorkerPerDeviceOwnHandle ==
  /\ \A d, e \in DOMAIN devices : d # e => Name(d) # Name(e)
  /\ \A d \in DOMAIN devices :
       /\ Spawned(d) => worker[d].file = [device |-> d, counter |-> "brightness"]
       /\ WorkersOf(d) \subseteq {d}
       /\ LoopDone => WorkersOf(d) = {d}
       /\ access[d].writers \subseteq {d}
       /\ access[d].lockers \subseteq {d}
       /\ written[d] # <<>> => access[d].writers = {d}

C18_Witness ==
  /\ Len(devices) = 2
  /\ \A d \in DOMAIN devices :
       /\ access[d].writers = {d}
       /\ access[d].lockers = {d}
       /\ written[d] # <<>>

\* what a spawned worker and its device keep from setup on
C19_Kept(d) ==
  Spawned(d) =>
    /\ worker'[d].target = worker[d].target
    /\ worker'[d].maximum = worker[d].maximum
    /\ worker'[d].stored = worker[d].stored
    /\ worker'[d].file = worker[d].file
    /\ reads'[d] = reads[d]

\* a step that writes is a step of one worker d, which changes its own
\* brightness (and its way out of the loop) and its device's counter only
C19_WriteStep ==
  written' # written =>
    /\ UNCHANGED <<restore, overflow_checks, devices, pc, i, thread, printed,
                   result, reads, call>>
    /\ \E d \in DOMAIN devices :
         /\ \A e \in DOMAIN devices \ {d} :
              /\ worker'[e] = worker[e]
              /\ written'[e] = written[e]
              /\ access'[e] = access[e]
         /\ worker'[d] = [worker[d] EXCEPT !.brightness = worker'[d].brightness]
         /\ access'[d].counters = {"brightness"}

C19_ReadOnce ==
  \A d \in DOMAIN devices :
    /\ reads[d].actual <= 1
    /\ reads[d].max <= 1
    /\ Spawned(d) => reads[d] = [actual |-> 1, max |-> 1]
    /\ access[d].counters \subseteq {"brightness"}

\* C19: the actual and maximum counters of a device are read exactly once, in
\* the setup pass that spawns its worker, and are never written; a ramping
\* worker changes only its own current value and the device's brightness
\* counter, and leaves its target, its maximum and the reads as they were.
C19_ReadOnceAndFrame ==
  /\ []C19_ReadOnce
  /\ [][(\A d \in DOMAIN devices : C19_Kept(d)) /\ C19_WriteStep]_vars

C19_Witness ==
  \E d \in DOMAIN devices :
    /\ Spawned(d)
    /\ reads[d] = [actual |-> 1, max |-> 1]
    /\ Len(written[d]) >= 2
    /\ worker[d].brightness # worker[d].stored

Returned == call.out # <<>>

\* C13: a percent input whose number is above 100 is refused with
\* InvalidPercentage whatever the maximum, and an input without percent
\* sign comes back as its absolute value, unclamped, also above the maximum.
C13_PercentRangeAndAbsolute ==
  Returned =>
    /\ \A p \in 101..MaxPercent :
         call.input = PercentInput(p) => call.out[1] = Err("InvalidPercentage")
    /\ \A n \in AbsoluteLevels :
         call.input = Display(n) => call.out[1] = Ok(n)

C13_Witness ==
  /\ Returned
  /\ \E p \in 101..MaxPercent : call.input = PercentInput(p)
  /\ call.max < HighBase
  /\ call.out[1] = Err("InvalidPercentage")

\* C14: for p in 0..100 the result of "p%" is exactly p*M/100 rounded
\* toward zero.
C14_PercentageExact ==
  Returned =>
    \A p \in 0..100 :
      call.input = PercentInput(p) => call.out[1] = Ok((p * call.max) \div 100)

====
